---- MODULE Spec2Model ----
(***************************************************************************)
(* Model of the test suite of the repository.                             *)
(* The API test harness of src/test_service_api.py: the helper            *)
(* methods of TestServiceAPI (extract_service_from_response,              *)
(* create_service, assert_validation_error) and the per-test fixture      *)
(* setup_and_teardown, run against the remote service, which is an        *)
(* external collaborator and answers nondeterministically; the tax        *)
(* functions of src/config.py in exact double arithmetic; the test bodies *)
(* as functions of the service's answers; and the class-scoped fixtures   *)
(* of src/conftest.py under the UI test classes of src/test_ui.py.        *)
(***************************************************************************)
EXTENDS Integers, Sequences, FiniteSets, TLC

(* ------------------------------ bounds -------------------------------- *)
\* number of distinct service identifiers the remote service can hand out
MaxUuids == 3
\* longest 'data' list of a collection-shaped body
MaxData == 2
\* create_service calls per test
MaxCreates == 2
\* largest price, in hundredths, of the dense range the tax functions are run on
MaxPrice == 300
\* test methods run per UI test class
MaxTests == 3
\* most service rows the list of the application shows
MaxRows == 2

(* ------------------- Python / JSON values, tagged by type -------------- *)
JObj(f) == [t |-> "dict", v |-> f]
JList(s) == [t |-> "list", v |-> s]
JStr(s) == [t |-> "str", v |-> s]
\* the n-th identifier string handed out by the service
JUuid(n) == [t |-> "uuid", v |-> n]
PyNone == [t |-> "null"]
\* a response body that response.json() cannot decode
Undecodable == [t |-> "undecodable"]
EmptyDict == JObj(<<>>)

\* outcome of a call: a returned value or a raised exception
Return(x) == [kind |-> "return", value |-> x]
Raise(e, m) == [kind |-> "raise", exc |-> e, msg |-> m]
Msg(tpl, args) == [template |-> tpl, args |-> args]

\* exception classes that derive from Exception; pytest.fail raises Failed,
\* which derives from BaseException only
IsException(e) == e # "Failed"

\* Python truthiness of an argument: None and "" are falsy
Truthy(x) == ~(x.t = "null") /\ ~(x.t = "str" /\ x.v = "")

\* `k in x` for a string k: key test on a dict, element test on a list,
\* TypeError on None
InRaises(x) == x.t \notin {"dict", "list"}
PyIn(k, x) ==
    IF x.t = "dict" THEN k \in DOMAIN x.v
    ELSE \E j \in DOMAIN x.v : x.v[j] = JStr(k)

\* x[k] for a string k: value of the key on a dict, TypeError otherwise
SubscriptRaises(k, x) == x.t # "dict" \/ k \notin DOMAIN x.v
Subscript(k, x) == x.v[k]

(* ----------------------------- responses ------------------------------ *)
Uuids == 1..MaxUuids
Rec(n) == JObj([uuid |-> JUuid(n), name |-> JStr("service")])
\* the GET shape of the class docstring: a record without identifier
RecNoUuid == JObj([name |-> JStr("service")])

RECURSIVE SeqsUpTo(_, _)
SeqsUpTo(S, n) ==
    IF n = 0 THEN {<<>>}
    ELSE LET shorter == SeqsUpTo(S, n - 1)
         IN shorter \cup {Append(s, e) : s \in {q \in shorter : Len(q) = n - 1}, e \in S}

DataElems(ids) == {Rec(n) : n \in ids} \cup {RecNoUuid}
DataLists(ids) == {JList(s) : s \in SeqsUpTo(DataElems(ids), MaxData)}

SingleBodies(ids) ==
    {Rec(n) : n \in ids}
    \cup {JObj([uuid |-> JUuid(n), name |-> JStr("service"), data |-> d]) :
            n \in ids, d \in {JList(<<>>), JList(<<RecNoUuid>>)} \cup {JList(<<Rec(m)>>) : m \in ids}}
CollectionBodies(ids) ==
    {JObj([data |-> d, pagination |-> EmptyDict]) : d \in DataLists(ids)}
UnrecognizedBodies ==
    {EmptyDict,
     JObj([message |-> JStr("ok")]),
     JObj([data |-> JStr("x")]),
     JObj([data |-> PyNone, pagination |-> EmptyDict]),
     JObj([data |-> JObj([items |-> JList(<<>>)])])}
NonDictBodies == {JList(<<>>), PyNone, Undecodable}

Fields == {"name", "price"}
MsgList == JList(<<JStr("must not be blank")>>)
ErrorMaps == {JObj([f \in S |-> MsgList]) : S \in SUBSET Fields}
ErrorBodies ==
    {JObj([errors |-> e]) : e \in ErrorMaps}
    \cup {JObj([errors |-> PyNone]), JObj([errors |-> JList(<<JStr("name")>>)])}

Bodies(ids) ==
    SingleBodies(ids) \cup CollectionBodies(ids) \cup UnrecognizedBodies
    \cup NonDictBodies \cup ErrorBodies
StatusCodes == {200, 201, 404, 422, 500}
Response(s, b) == [status_code |-> s, body |-> b]
Responses(ids) == {Response(s, b) : s \in StatusCodes, b \in Bodies(ids)}

(* ------------------- extract_service_from_response -------------------- *)
\* line 58: the single-object shape is recognised by its identifier key
has_uuid_shadowed_by_data(response_data) ==
    PyIn("uuid", response_data) /\ ~PyIn("data", response_data)
has_uuid(response_data) == PyIn("uuid", response_data)

\* line 64: the element of the collection that is returned
last_of_data(data) == data.v[Len(data.v)]
first_of_data(data) == data.v[1]

\* lines 66-69: the fallthrough for any other shape
unexpected_structure_ignored(response_data) == Return(PyNone)
unexpected_structure(response_data) ==
    IF response_data.t # "dict"
      THEN Raise("AttributeError", Msg("", <<>>))
      ELSE Raise("Failed", Msg("API returned unexpected structure", <<DOMAIN response_data.v>>))

\* an empty 'data' list falls through to the failure of lines 66-69
extract_service_from_response_empty_data_unexpected(response) ==
    LET response_data == response.body IN
    IF response.status_code \notin {200, 201}
      THEN Raise("AssertionError", Msg("expected 200/201, got", <<response.status_code>>))
    ELSE IF response_data.t = "undecodable"
      THEN Raise("JSONDecodeError", Msg("", <<>>))
    ELSE IF InRaises(response_data)
      THEN Raise("TypeError", Msg("", <<>>))
    ELSE IF has_uuid(response_data)
      THEN Return(response_data)
    ELSE IF /\ PyIn("data", response_data) /\ Subscript("data", response_data).t = "list"
            /\ Len(Subscript("data", response_data).v) > 0
      THEN Return(first_of_data(Subscript("data", response_data)))
    ELSE unexpected_structure(response_data)
extract_service_from_response(response) ==
    LET response_data == response.body IN
    IF response.status_code \notin {200, 201}
      THEN Raise("AssertionError", Msg("expected 200/201, got", <<response.status_code>>))
    ELSE IF response_data.t = "undecodable"
      THEN Raise("JSONDecodeError", Msg("", <<>>))
    ELSE IF InRaises(response_data)
      THEN Raise("TypeError", Msg("", <<>>))
    ELSE IF has_uuid(response_data)
      THEN Return(response_data)
    ELSE IF PyIn("data", response_data) /\ Subscript("data", response_data).t = "list"
      THEN IF Len(Subscript("data", response_data).v) > 0
             THEN Return(first_of_data(Subscript("data", response_data)))
             ELSE Raise("AssertionError", Msg("data list is empty, created service not found", <<>>))
    ELSE unexpected_structure(response_data)

(* ----------------------- assert_validation_error ---------------------- *)
\* line 89: the status the helper requires
status_is_client_error(status_code) == status_code >= 400 /\ status_code < 500
status_is_422(status_code) == status_code = 422

\* lines 93-104: the body of the try block
validation_try_body(response, expected_field) ==
    LET response_data == response.body IN
    IF response_data.t = "undecodable"
      THEN Raise("JSONDecodeError", Msg("", <<>>))
    ELSE IF InRaises(response_data)
      THEN Raise("TypeError", Msg("", <<>>))
    ELSE IF ~PyIn("errors", response_data)
      THEN Raise("AssertionError", Msg("response has no field 'errors'", <<response_data>>))
    ELSE IF SubscriptRaises("errors", response_data)
      THEN Raise("TypeError", Msg("", <<>>))
    ELSE LET errors == Subscript("errors", response_data) IN
      IF Truthy(expected_field)
        THEN IF InRaises(errors)
               THEN Raise("TypeError", Msg("", <<>>))
             ELSE IF ~PyIn(expected_field.v, errors)
               THEN IF errors.t = "dict"
                      THEN Raise("AssertionError",
                                 Msg("expected an error for field", <<expected_field.v, DOMAIN errors.v>>))
                      ELSE Raise("AttributeError", Msg("", <<>>))
             ELSE IF SubscriptRaises(expected_field.v, errors)
               THEN Raise("TypeError", Msg("", <<>>))
             ELSE Return(Subscript(expected_field.v, errors))
        ELSE Return(errors)

\* lines 105-106: what the except clause does with a caught exception
parse_failure_passes(e) == Return(PyNone)
parse_failure(e) == Raise("Failed", Msg("could not parse validation errors", <<e>>))

assert_validation_error_ignoring_field(response, expected_field) ==
    IF ~status_is_422(response.status_code)
      THEN Raise("AssertionError", Msg("expected 422, got", <<response.status_code>>))
      ELSE LET r == validation_try_body(response, PyNone) IN
           IF r.kind = "raise" /\ IsException(r.exc) THEN parse_failure(r.exc) ELSE r
assert_validation_error(response, expected_field) ==
    IF ~status_is_422(response.status_code)
      THEN Raise("AssertionError", Msg("expected 422, got", <<response.status_code>>))
      ELSE LET r == validation_try_body(response, expected_field) IN
           IF r.kind = "raise" /\ IsException(r.exc) THEN parse_failure(r.exc) ELSE r

(* ---------------------------- create_service -------------------------- *)
\* line 83: a bare `except:` catches every exception class, Failed included
create_service_except_Exception(e) == IsException(e)
create_service_except(e) == TRUE

\* the identifier is looked up in the raw body instead of the normalised record
create_service_tracks_single_only(uuids, response) ==
    IF response.status_code \in {200, 201}
      THEN LET r == extract_service_from_response(response) IN
           IF r.kind = "raise"
             THEN [ret |-> Return(response), uuids |-> uuids]
           ELSE LET service == response.body IN
                IF ~InRaises(service) /\ PyIn("uuid", service) /\ ~SubscriptRaises("uuid", service)
                  THEN [ret |-> Return(response), uuids |-> Append(uuids, Subscript("uuid", service))]
                  ELSE [ret |-> Return(response), uuids |-> uuids]
      ELSE [ret |-> Return(response), uuids |-> uuids]

\* lines 71-85: one call, given the response the POST of line 73 obtained:
\* the value handed back to the test and the new self.created_service_uuids
create_service(uuids, response) ==
    IF response.status_code \in {200, 201}
      THEN LET r == extract_service_from_response(response) IN
           IF r.kind = "raise"
             THEN IF create_service_except(r.exc)
                    THEN [ret |-> Return(response), uuids |-> uuids]
                    ELSE [ret |-> r, uuids |-> uuids]
           ELSE LET service == r.value IN
                IF InRaises(service) \/ (PyIn("uuid", service) /\ SubscriptRaises("uuid", service))
                  THEN IF create_service_except("TypeError")
                         THEN [ret |-> Return(response), uuids |-> uuids]
                         ELSE [ret |-> Raise("TypeError", Msg("", <<>>)), uuids |-> uuids]
                ELSE IF PyIn("uuid", service)
                  THEN [ret |-> Return(response), uuids |-> Append(uuids, Subscript("uuid", service))]
                  ELSE [ret |-> Return(response), uuids |-> uuids]
      ELSE [ret |-> Return(response), uuids |-> uuids]

(* --------------------------- setup_and_teardown ----------------------- *)
\* line 39: a bare `except:` around each DELETE of the teardown loop
teardown_except_nothing(e) == FALSE
teardown_except(e) == TRUE

\* list.remove(x): drops the first occurrence of x
RECURSIVE list_remove(_, _)
list_remove(l, x) ==
    IF l = <<>> THEN <<>>
    ELSE IF Head(l) = x THEN Tail(l)
    ELSE <<Head(l)>> \o list_remove(Tail(l), x)
Elements(l) == {l[j] : j \in DOMAIN l}

(* ------------------------------- state -------------------------------- *)
VARIABLES
    pc,                     \* "idle" | "test" | "teardown": position of pytest in the current test
    created_service_uuids,  \* self.created_service_uuids
    idx,                    \* position of the teardown loop in the list
    server,                 \* identifiers of the records stored by the remote service
    nextUuid,               \* the identifier the service hands out next
    created,                \* the records created by this test's create_service calls, each
                            \* with the envelope the service answered its POST with
    deletes,                \* DELETE requests issued during this test, in order
    outcome,                \* "none" | "passed" | "failed": how the test body ended
    teardown_error,         \* an exception left the teardown code
    ncreate,                \* create_service calls made by this test
    call,                   \* the last helper call: its arguments and its outcome
    \* the UI session of conftest.py and test_ui.py
    ui_pc,                  \* "between" | "context" | "ready" | "cleanup" | "test": position of pytest
    ui_class,               \* index in UIClasses of the class being run, 0 before the first
    remaining,              \* test methods of the class not yet run
    class_context,          \* "none" | "open" | "closed": the context of class_context
    class_page,             \* identity of the page of class_page, 0 before the first
    page_open,              \* the page of class_page is not closed
    page_url,               \* "blank" | "login" | "services": page.url
    auth,                   \* "unset" | "ok" | "failed": cached result of authenticated_page
    logins,                 \* runs of the login steps for the class
    rows,                   \* service rows (delete controls) in the list of the application
    handed,                 \* identities of the pages handed to the test methods of the class
    ran,                    \* test bodies of the class that were run
    setup_errors,           \* test methods of the class reported as errors of their setup
    dialog_handlers,        \* "dialog" listeners registered on the page of class_page
    removed                 \* rows the clicks of the current cleanup loop have removed

ui == <<ui_pc, ui_class, remaining, class_context, class_page, page_open, page_url,
        auth, logins, rows, handed, ran, setup_errors, dialog_handlers,
        removed>>
api == <<pc, created_service_uuids, idx, server, nextUuid, created, deletes,
         outcome, teardown_error, ncreate>>
vars == <<api, call, ui>>
lifecycle == <<api, ui>>

NoCall == [op |-> "none"]

Init ==
    /\ pc = "idle"
    /\ created_service_uuids = <<>>
    /\ idx = 1
    /\ server = {}
    /\ nextUuid = 1
    /\ created = {}
    /\ deletes = <<>>
    /\ outcome = "none"
    /\ teardown_error = FALSE
    /\ ncreate = 0
    /\ call = NoCall
    /\ ui_pc = "between"
    /\ ui_class = 0
    /\ remaining = 0
    /\ class_context = "none"
    /\ class_page = 0
    /\ page_open = FALSE
    /\ page_url = "blank"
    /\ auth = "unset"
    /\ logins = 0
    /\ rows = 0
    /\ handed = {}
    /\ ran = 0
    /\ setup_errors = 0
    /\ dialog_handlers = 0
    /\ removed = 0

(* ------------------- the helpers applied to any response --------------- *)
ExpectedFields == {PyNone, JStr(""), JStr("name"), JStr("price"), JStr("quantity")}

ExtractCall(response) ==
    /\ call.op = "none"
    /\ call' = [op |-> "extract_service_from_response", response |-> response,
                result |-> extract_service_from_response(response)]
    /\ UNCHANGED lifecycle

ValidationCall(response, expected_field) ==
    /\ call.op = "none"
    /\ call' = [op |-> "assert_validation_error", response |-> response,
                expected_field |-> expected_field,
                result |-> assert_validation_error(response, expected_field)]
    /\ UNCHANGED lifecycle

NextHelpers ==
    \/ \E response \in Responses(Uuids) : ExtractCall(response)
    \/ \E response \in Responses(Uuids), f \in ExpectedFields : ValidationCall(response, f)

SpecHelpers == Init /\ [][NextHelpers]_vars

(* --------------------------- one test after another -------------------- *)
\* what the remote service may answer to the POST of line 73
\* a page of the service's listing: stored records, each at most once, in
\* any order, or the record shape without identifier
Listings(ids) ==
    {JList(s) : s \in {q \in SeqsUpTo({Rec(n) : n \in ids}, MaxData) :
                          \A j, k \in DOMAIN q : j # k => q[j] # q[k]}}
    \cup {JList(<<RecNoUuid>>)}
PostBodies(ids, new) ==
    {Rec(new)}
    \cup {JObj([data |-> d, pagination |-> EmptyDict]) : d \in Listings(ids)}
    \cup {EmptyDict, Undecodable}
\* the class docstring's two POST success shapes, lines 17-19
Envelope(body) ==
    IF body.t # "dict" THEN "other"
    ELSE IF "uuid" \in DOMAIN body.v THEN "single"
    ELSE IF /\ "data" \in DOMAIN body.v
            /\ body.v["data"].t = "list"
            /\ body.v["data"].v # <<>>
            /\ \A j \in DOMAIN body.v["data"].v : "uuid" \in DOMAIN body.v["data"].v[j].v
      THEN "collection"
    ELSE "other"
RejectBodies == {JObj([errors |-> JObj([name |-> MsgList])]), Rec(1), Undecodable}

\* line 30: the list the fixture gives the test instance, whatever the
\* list of the test before held
setup_keeps_list(previous) == previous
setup_list(previous) == <<>>

\* line 30: pytest enters the fixture before the test body
SetupTest ==
    /\ pc = "idle"
    /\ pc' = "test"
    /\ created_service_uuids' = setup_list(created_service_uuids)
    /\ idx' = 1
    /\ created' = {}
    /\ deletes' = <<>>
    /\ outcome' = "none"
    /\ teardown_error' = FALSE
    /\ ncreate' = 0
    /\ call' = NoCall
    /\ UNCHANGED <<server, nextUuid>>
    /\ UNCHANGED ui

\* lines 71-85 with a POST the service accepts: it stores a new record
CreateAccepted(status, body) ==
    /\ pc = "test"
    /\ ncreate < MaxCreates
    /\ nextUuid <= MaxUuids
    /\ status \in {200, 201}
    /\ body \in PostBodies(server \cup {nextUuid}, nextUuid)
    /\ LET response == Response(status, body)
           c == create_service(created_service_uuids, response)
       IN /\ call' = [op |-> "create_service", response |-> response, result |-> c.ret]
          /\ created_service_uuids' = c.uuids
          /\ IF c.ret.kind = "raise"
               THEN pc' = "teardown" /\ outcome' = "failed"
               ELSE UNCHANGED <<pc, outcome>>
    /\ server' = server \cup {nextUuid}
    /\ created' = created \cup {[uuid |-> nextUuid, envelope |-> Envelope(body)]}
    /\ nextUuid' = nextUuid + 1
    /\ ncreate' = ncreate + 1
    /\ UNCHANGED <<idx, deletes, teardown_error>>
    /\ UNCHANGED ui

\* lines 71-85 with a POST the service rejects: nothing is stored
CreateRejected(status, body) ==
    /\ pc = "test"
    /\ ncreate < MaxCreates
    /\ status \in {422, 500}
    /\ body \in RejectBodies
    /\ LET response == Response(status, body)
           c == create_service(created_service_uuids, response)
       IN /\ call' = [op |-> "create_service", response |-> response, result |-> c.ret]
          /\ created_service_uuids' = c.uuids
          /\ IF c.ret.kind = "raise"
               THEN pc' = "teardown" /\ outcome' = "failed"
               ELSE UNCHANGED <<pc, outcome>>
    /\ ncreate' = ncreate + 1
    /\ UNCHANGED <<idx, server, nextUuid, created, deletes, teardown_error>>
    /\ UNCHANGED ui

\* lines 379-398, 851-868: the test deletes the record whose identifier it
\* read from the last POST response and takes it off the list
TestDelete ==
    /\ pc = "test"
    /\ call.op = "create_service"
    /\ call.response.status_code \in {200, 201}
    /\ call.response.body.t = "dict"
    /\ "uuid" \in DOMAIN call.response.body.v
    /\ LET service_uuid == call.response.body.v["uuid"] IN
       /\ deletes' = Append(deletes, [by |-> "test", uuid |-> service_uuid, raised |-> FALSE])
       /\ server' = server \ {service_uuid.v}
       /\ IF service_uuid \in Elements(created_service_uuids)
            THEN /\ created_service_uuids' = list_remove(created_service_uuids, service_uuid)
                 /\ UNCHANGED <<pc, outcome>>
            ELSE /\ pc' = "teardown"
                 /\ outcome' = "failed"
                 /\ UNCHANGED created_service_uuids
    /\ UNCHANGED <<idx, nextUuid, created, teardown_error, ncreate, call>>
    /\ UNCHANGED ui

\* a failed test body ends the test without the code behind the yield
TestEnd_without_teardown_on_failure(result) ==
    /\ pc = "test"
    /\ pc' = IF result = "failed" THEN "idle" ELSE "teardown"
    /\ outcome' = result
    /\ call' = NoCall
    /\ UNCHANGED <<created_service_uuids, idx, server, nextUuid, created, deletes,
                   teardown_error, ncreate>>
    /\ UNCHANGED ui

\* the test body ends, on its last statement or on a failed assertion
TestEnd(result) ==
    /\ pc = "test"
    /\ pc' = "teardown"
    /\ outcome' = result
    /\ call' = NoCall
    /\ UNCHANGED <<created_service_uuids, idx, server, nextUuid, created, deletes,
                   teardown_error, ncreate>>
    /\ UNCHANGED ui

\* lines 33-40: one iteration of the teardown loop; the DELETE either gets
\* an answer or raises, and the request may have reached the service or not
TeardownDelete(raises, reached) ==
    /\ pc = "teardown"
    /\ idx <= Len(created_service_uuids)
    /\ LET service_uuid == created_service_uuids[idx] IN
       /\ deletes' = Append(deletes, [by |-> "teardown", uuid |-> service_uuid, raised |-> raises])
       /\ server' = IF reached THEN server \ {service_uuid.v} ELSE server
    /\ IF raises /\ ~teardown_except("ConnectionError")
         THEN pc' = "idle" /\ teardown_error' = TRUE /\ UNCHANGED idx
         ELSE idx' = idx + 1 /\ UNCHANGED <<pc, teardown_error>>
    /\ UNCHANGED <<created_service_uuids, nextUuid, created, outcome, ncreate, call>>
    /\ UNCHANGED ui

\* the loop of line 33 is exhausted: the fixture and the test are over
TeardownDone ==
    /\ pc = "teardown"
    /\ idx > Len(created_service_uuids)
    /\ pc' = "idle"
    /\ UNCHANGED <<created_service_uuids, idx, server, nextUuid, created, deletes,
                   outcome, teardown_error, ncreate, call>>
    /\ UNCHANGED ui

Next ==
    \/ SetupTest
    \/ \E status \in {200, 201}, body \in PostBodies(server \cup {nextUuid}, nextUuid) :
          CreateAccepted(status, body)
    \/ \E status \in {422, 500}, body \in RejectBodies : CreateRejected(status, body)
    \/ TestDelete
    \/ \E result \in {"passed", "failed"} : TestEnd(result)
    \/ \E raises \in BOOLEAN, reached \in BOOLEAN : TeardownDelete(raises, reached)
    \/ TeardownDone

Spec == Init /\ [][Next]_vars

(* ======================= properties of the helpers ===================== *)
IsExtract == call.op = "extract_service_from_response"
IsValidation == call.op = "assert_validation_error"
IsCreate == call.op = "create_service"
Ok(response) == response.status_code \in {200, 201}
IsDict(x) == x.t = "dict"
HasKey(x, k) == IsDict(x) /\ k \in DOMAIN x.v
HasDataList(x) == HasKey(x, "data") /\ x.v["data"].t = "list"

\* C1: given a 200/201 response whose decoded body contains the key 'uuid',
\* extract_service_from_response returns exactly that body, also when the
\* body contains a 'data' key as well.
C1_UuidBodyReturnedUnchanged ==
    (IsExtract /\ Ok(call.response) /\ HasKey(call.response.body, "uuid"))
        => /\ call.result.kind = "return"
           /\ call.result.value = call.response.body
C1_Witness ==
    /\ IsExtract /\ Ok(call.response)
    /\ HasKey(call.response.body, "uuid")
    /\ HasDataList(call.response.body)
    /\ call.response.body.v["data"].v # <<>>
    /\ call.result.kind = "return"

\* C2: given a 200/201 response whose body has no 'uuid' key and whose
\* 'data' value is a non-empty list, extract_service_from_response returns
\* the first element of that list.
C2_FirstElementOfData ==
    (/\ IsExtract /\ Ok(call.response)
     /\ IsDict(call.response.body)
     /\ ~HasKey(call.response.body, "uuid")
     /\ HasDataList(call.response.body)
     /\ call.response.body.v["data"].v # <<>>)
        => /\ call.result.kind = "return"
           /\ call.result.value = call.response.body.v["data"].v[1]
C2_Witness ==
    /\ IsExtract /\ Ok(call.response)
    /\ IsDict(call.response.body)
    /\ ~HasKey(call.response.body, "uuid")
    /\ HasDataList(call.response.body)
    /\ Len(call.response.body.v["data"].v) = 2
    /\ call.response.body.v["data"].v[1] # call.response.body.v["data"].v[2]
    /\ call.result.kind = "return"
    /\ call.result.value = call.response.body.v["data"].v[1]

C6_Requires422 ==
    (IsValidation /\ call.response.status_code # 422) => call.result.kind = "raise"
C6_Witness ==
    /\ IsValidation
    /\ call.response.status_code = 404
    /\ HasKey(call.response.body, "errors")
    /\ HasKey(call.response.body.v["errors"], "name")
    /\ call.expected_field = JStr("name")
    /\ call.result.kind = "raise"

\* C7: on a 422 response whose body has an 'errors' mapping,
\* assert_validation_error returns the message list of the given field when
\* that field is a key of the mapping, and the whole mapping when no field
\* is given.
C7_ReturnsErrors ==
    (/\ IsValidation /\ call.response.status_code = 422
     /\ HasKey(call.response.body, "errors")
     /\ IsDict(call.response.body.v["errors"]))
        => LET errors == call.response.body.v["errors"] IN
           /\ (call.expected_field.t = "str" /\ HasKey(errors, call.expected_field.v))
                 => /\ call.result.kind = "return"
                    /\ call.result.value = errors.v[call.expected_field.v]
           /\ (call.expected_field = PyNone)
                 => /\ call.result.kind = "return"
                    /\ call.result.value = errors
C7_Witness ==
    /\ IsValidation /\ call.response.status_code = 422
    /\ HasKey(call.response.body, "errors")
    /\ IsDict(call.response.body.v["errors"])
    /\ DOMAIN call.response.body.v["errors"].v = {"name", "price"}
    /\ call.expected_field = JStr("price")
    /\ call.result.kind = "return"
    /\ call.result.value = MsgList

\* C8: on a 422 response whose body cannot be decoded, has no 'errors' key,
\* or has an 'errors' mapping without the requested field,
\* assert_validation_error ends in pytest.fail and returns no value.  (A
\* requested field is a non-empty field name: line 97 takes "" for no field.)
C8_NeverPassesSilently ==
    (/\ IsValidation /\ call.response.status_code = 422
     /\ \/ call.response.body.t = "undecodable"
        \/ ~HasKey(call.response.body, "errors")
        \/ /\ IsDict(call.response.body.v["errors"])
           /\ Truthy(call.expected_field)
           /\ ~HasKey(call.response.body.v["errors"], call.expected_field.v))
        => /\ call.result.kind = "raise"
           /\ call.result.exc = "Failed"
C8_Witness ==
    /\ IsValidation /\ call.response.status_code = 422
    /\ HasKey(call.response.body, "errors")
    /\ IsDict(call.response.body.v["errors"])
    /\ DOMAIN call.response.body.v["errors"].v = {"name"}
    /\ call.expected_field = JStr("price")
    /\ call.result.kind = "raise"
    /\ call.result.exc = "Failed"

(* ================= properties of create_service and teardown =========== *)
\* the record the two known envelopes carry, stated from the body's shape
Normalizable(response) ==
    /\ Ok(response)
    /\ IsDict(response.body)
    /\ \/ HasKey(response.body, "uuid")
       \/ HasDataList(response.body) /\ response.body.v["data"].v # <<>>
NormalizedRecord(response) ==
    IF HasKey(response.body, "uuid") THEN response.body
    ELSE response.body.v["data"].v[1]

\* C4 as stated: create_service appends exactly one identifier exactly when
\* the status is 200/201 and normalisation succeeds, and leaves the list
\* unchanged in every other case.
C4_AppendsWheneverNormalized ==
    [][ncreate' = ncreate + 1 =>
         IF Normalizable(call'.response)
           THEN Len(created_service_uuids') = Len(created_service_uuids) + 1
           ELSE created_service_uuids' = created_service_uuids]_vars

\* C4 amended: create_service appends the identifier of the normalised
\* record, once, exactly when the status is 200/201, normalisation succeeds
\* and the normalised record has a 'uuid' key; otherwise the list is
\* unchanged.
C4_AppendsIdentifierOfNormalized ==
    [][ncreate' = ncreate + 1 =>
         IF Normalizable(call'.response) /\ HasKey(NormalizedRecord(call'.response), "uuid")
           THEN created_service_uuids' =
                    Append(created_service_uuids, NormalizedRecord(call'.response).v["uuid"])
           ELSE created_service_uuids' = created_service_uuids]_vars
C4_Witness ==
    /\ IsCreate /\ Ok(call.response)
    /\ Envelope(call.response.body) = "collection"
    /\ Len(created_service_uuids) = 2
    /\ created_service_uuids[2] = call.response.body.v["data"].v[1].v["uuid"]
    /\ ncreate = 2

\* C5: create_service hands the raw response back for every status and
\* every body shape; a failed normalisation never reaches the caller.
C5_AlwaysReturnsRawResponse ==
    IsCreate => /\ call.result.kind = "return"
                /\ call.result.value = call.response
C5_Witness ==
    /\ IsCreate /\ Ok(call.response)
    /\ call.response.body = EmptyDict
    /\ call.result.kind = "return"
    /\ pc = "test"

\* the identifiers the teardown loop has sent a DELETE for, in order
RECURSIVE TeardownDeletes(_)
TeardownDeletes(log) ==
    IF log = <<>> THEN <<>>
    ELSE IF Head(log).by = "teardown"
      THEN <<Head(log).uuid>> \o TeardownDeletes(Tail(log))
      ELSE TeardownDeletes(Tail(log))
Finished == pc = "idle" /\ outcome # "none"

\* C9: the teardown issues one DELETE per entry of the tracked-resources
\* list, in list order; a DELETE that raises stops neither the later
\* DELETEs nor turns into a failure or error of the test.
C9_TeardownDeletesEveryEntry ==
    /\ pc = "teardown" =>
          /\ TeardownDeletes(deletes) = SubSeq(created_service_uuids, 1, idx - 1)
          /\ ~teardown_error
    /\ Finished =>
          /\ TeardownDeletes(deletes) = created_service_uuids
          /\ ~teardown_error
C9_Witness ==
    /\ Finished
    /\ Len(created_service_uuids) = 2
    /\ created_service_uuids[1] # created_service_uuids[2]
    /\ Len(deletes) = 2
    /\ deletes[1].by = "teardown" /\ deletes[1].raised
    /\ deletes[2].by = "teardown"
    /\ deletes[2].uuid = created_service_uuids[2]

\* C10: when a test is over, every record its create_service calls created
\* and whose POST was answered with the single or the collection envelope
\* has had a DELETE issued for its identifier, by the test or by teardown.
C10_EveryCreatedRecordDeleted ==
    Finished =>
        \A c \in created :
            c.envelope \in {"single", "collection"}
                => \E j \in DOMAIN deletes : deletes[j].uuid = JUuid(c.uuid)


(* ============ config.py: calculate_tax and calculate_gross ============ *)
(* Prices are Python floats (IEEE-754 doubles).  A double is modelled      *)
(* exactly, as mant * 2^exp with mant below 2^53; mant is an unbounded     *)
(* natural number, kept as its base-10000 digits, least significant first. *)
Base == 10000

RECURSIVE BigFromInt(_)
BigFromInt(n) == IF n = 0 THEN <<>> ELSE <<n % Base>> \o BigFromInt(n \div Base)
RECURSIVE BigToInt(_)
BigToInt(a) == IF a = <<>> THEN 0 ELSE Head(a) + Base * BigToInt(Tail(a))
RECURSIVE BigStrip(_)
BigStrip(a) ==
    IF a # <<>> /\ a[Len(a)] = 0 THEN BigStrip(SubSeq(a, 1, Len(a) - 1)) ELSE a
RECURSIVE BigAddCarry(_, _, _)
BigAddCarry(a, b, carry) ==
    IF a = <<>> /\ b = <<>> THEN BigFromInt(carry)
    ELSE LET x == IF a = <<>> THEN 0 ELSE Head(a)
             y == IF b = <<>> THEN 0 ELSE Head(b)
             ta == IF a = <<>> THEN <<>> ELSE Tail(a)
             tb == IF b = <<>> THEN <<>> ELSE Tail(b)
         IN <<(x + y + carry) % Base>> \o BigAddCarry(ta, tb, (x + y + carry) \div Base)
BigAdd(a, b) == BigAddCarry(a, b, 0)
RECURSIVE BigMulSmallCarry(_, _, _)
BigMulSmallCarry(a, k, carry) ==
    IF a = <<>> THEN BigFromInt(carry)
    ELSE <<(Head(a) * k + carry) % Base>>
            \o BigMulSmallCarry(Tail(a), k, (Head(a) * k + carry) \div Base)
BigMulSmall(a, k) == IF k = 0 THEN <<>> ELSE BigMulSmallCarry(a, k, 0)
BigShift(a) == IF a = <<>> THEN <<>> ELSE <<0>> \o a
RECURSIVE BigMul(_, _)
BigMul(a, b) ==
    IF b = <<>> THEN <<>>
    ELSE BigAdd(BigMulSmall(a, Head(b)), BigShift(BigMul(a, Tail(b))))
RECURSIVE BigCmpFrom(_, _, _)
BigCmpFrom(a, b, i) ==
    IF i = 0 THEN 0
    ELSE IF a[i] > b[i] THEN 1
    ELSE IF a[i] < b[i] THEN -1
    ELSE BigCmpFrom(a, b, i - 1)
BigCmp(a, b) ==
    IF Len(a) > Len(b) THEN 1
    ELSE IF Len(a) < Len(b) THEN -1
    ELSE BigCmpFrom(a, b, Len(a))
RECURSIVE BigDivSmallFrom(_, _, _, _)
BigDivSmallFrom(a, k, i, rem) ==
    IF i = 0 THEN [q |-> <<>>, r |-> rem]
    ELSE LET cur == rem * Base + a[i]
             rest == BigDivSmallFrom(a, k, i - 1, cur % k)
         IN [q |-> Append(rest.q, cur \div k), r |-> rest.r]
BigDivSmall(a, k) ==
    LET d == BigDivSmallFrom(a, k, Len(a), 0) IN [q |-> BigStrip(d.q), r |-> d.r]
\* 2^13 is the largest power of two below Base
ChunkBits == 13
RECURSIVE BigPow2(_)
BigPow2(n) ==
    IF n <= ChunkBits THEN <<2 ^ n>>
    ELSE BigMulSmall(BigPow2(n - ChunkBits), 2 ^ ChunkBits)
Two53 == BigPow2(53)
Two66 == BigPow2(53 + ChunkBits)
Two70 == BigPow2(70)
BigOdd(a) == a # <<>> /\ Head(a) % 2 = 1

\* round to nearest, ties to even, given the bits shifted out
RoundedEven(q, rnd, sticky) ==
    IF rnd /\ (sticky \/ BigOdd(q)) THEN BigAdd(q, <<1>>) ELSE q
\* q shifted right by bits, and whether a 1 was shifted out
RECURSIVE ShiftSticky(_, _, _)
ShiftSticky(q, bits, sticky) ==
    IF bits = 0 THEN [q |-> q, sticky |-> sticky]
    ELSE LET k == IF bits < ChunkBits THEN bits ELSE ChunkBits
             d == BigDivSmall(q, 2 ^ k)
         IN ShiftSticky(d.q, bits - k, sticky \/ d.r # 0)
\* q / 2^bits rounded to the nearest integer, ties to even; sticky tells
\* that q itself was truncated
ShiftRightEven(q, bits, sticky) ==
    IF bits = 0 THEN q
    ELSE LET t == ShiftSticky(q, bits - 1, sticky)
             d == BigDivSmall(t.q, 2)
         IN RoundedEven(d.q, d.r = 1, t.sticky)
\* the number of bits by which q exceeds 53 bits
RECURSIVE ExcessBits(_)
ExcessBits(q) ==
    IF BigCmp(q, Two66) >= 0 THEN ChunkBits + ExcessBits(BigDivSmall(q, 2 ^ ChunkBits).q)
    ELSE IF BigCmp(q, Two53) >= 0 THEN 1 + ExcessBits(BigDivSmall(q, 2).q)
    ELSE 0
\* q * 2^e (q truncated if sticky) as the nearest double
Nearest53(q, e, sticky) ==
    LET s == ExcessBits(q) IN [mant |-> ShiftRightEven(q, s, sticky), exp |-> e + s]

FZero == [mant |-> <<>>, exp |-> 0]
\* the double nearest to the decimal c/100 (what a literal or a JSON number
\* with two decimals denotes)
FromCents(c) ==
    IF c = 0 THEN FZero
    ELSE LET d == BigDivSmall(BigMul(BigFromInt(c), Two70), 100)
         IN Nearest53(d.q, -70, d.r # 0)
\* x * y and x + y of two non-negative doubles
FMul(x, y) ==
    IF x.mant = <<>> \/ y.mant = <<>> THEN FZero
    ELSE Nearest53(BigMul(x.mant, y.mant), x.exp + y.exp, FALSE)
FAdd(x, y) ==
    IF x.mant = <<>> THEN y
    ELSE IF y.mant = <<>> THEN x
    ELSE LET e == IF x.exp < y.exp THEN x.exp ELSE y.exp
         IN Nearest53(BigAdd(BigMul(x.mant, BigPow2(x.exp - e)),
                             BigMul(y.mant, BigPow2(y.exp - e))), e, FALSE)
\* round(x, 2) of a non-negative double: correctly rounded, ties to even on
\* the exact binary value; the result is given in hundredths
PyRound2(x) ==
    LET hundredfold == BigMulSmall(x.mant, 100) IN
    IF x.exp >= 0 THEN BigToInt(BigMul(hundredfold, BigPow2(x.exp)))
    ELSE BigToInt(ShiftRightEven(hundredfold, 0 - x.exp, FALSE))

\* DB_LIMITS["tax_rate"], config.py line 32, in hundredths
tax_rate == 22

\* config.py lines 98-106; prices and results in hundredths
calculate_tax_truncated(price) == (price * tax_rate) \div 100
calculate_tax(price) == PyRound2(FMul(FromCents(price), FromCents(tax_rate)))
calculate_gross(price) ==
    LET tax == calculate_tax(price) IN PyRound2(FAdd(FromCents(price), FromCents(tax)))

\* test_service_api.py lines 403-411: (price, expected_tax, expected_gross)
PrecisionTable ==
    {<<10000, 2200, 12200>>, <<25050, 5511, 30561>>, <<9999, 2200, 12199>>,
     <<100000, 22000, 122000>>, <<3333, 733, 4066>>, <<300000, 66000, 366000>>,
     <<250000, 55000, 305000>>}
Prices == 0..MaxPrice \cup {row[1] : row \in PrecisionTable}

TaxCall(price) ==
    /\ call.op = "none"
    /\ call' = [op |-> "calculate_tax", price |-> price,
                tax |-> calculate_tax(price), gross |-> calculate_gross(price)]
    /\ UNCHANGED lifecycle

NextTax == \E price \in Prices : TaxCall(price)
SpecTax == Init /\ [][NextTax]_vars

IsTax == call.op = "calculate_tax"
\* n/d rounded to an integer, ties up and ties to even
RoundHalfUp(n, d) == (2 * n + d) \div (2 * d)
RoundHalfEven(n, d) ==
    IF (2 * n) % (2 * d) = d
      THEN IF (n \div d) % 2 = 0 THEN n \div d ELSE n \div d + 1
      ELSE RoundHalfUp(n, d)
Abs(x) == IF x < 0 THEN 0 - x ELSE x

\* C12: for every price p >= 0 with at most two decimals calculate_tax(p) is
\* p * 0.22 rounded to two decimals (half-up or half-even), calculate_gross(p)
\* is p + calculate_tax(p) rounded to two decimals, and on every row of the
\* precision table tax and gross are within 0.01 of the expected values.
C12_TaxIsRoundedProduct ==
    IsTax =>
        /\ call.tax \in {RoundHalfUp(call.price * tax_rate, 100),
                         RoundHalfEven(call.price * tax_rate, 100)}
        /\ call.gross = call.price + call.tax
        /\ \A row \in PrecisionTable :
              row[1] = call.price =>
                  Abs(call.tax - row[2]) < 1 /\ Abs(call.gross - row[3]) < 1

\* C13 as stated: for every price >= 0.01 the computed tax is >= 0.01 and
\* the computed gross is >= 0.01.
C13_BoundsFromMinimumPrice ==
    (IsTax /\ call.price >= 1) => (call.tax >= 1 /\ call.gross >= 1)

\* C13 amended: for every price >= 0.03 the computed tax is >= 0.01, and for
\* every price >= 0.01 the computed gross is >= 0.01 (the tax of 0.01 and of
\* 0.02 rounds to 0.00).
C13_BoundsFromThreeHundredths ==
    /\ (IsTax /\ call.price >= 3) => call.tax >= 1
    /\ (IsTax /\ call.price >= 1) => call.gross >= 1
    /\ (IsTax /\ call.price \in {1, 2}) => call.tax = 0
C13_Witness ==
    IsTax /\ call.price = 3 /\ call.tax = 1 /\ call.gross = 4

(* ================== the API tests against one service ================== *)
\* a JSON number, in hundredths
JNum(c) == [t |-> "num", v |-> c]
\* Python's == on decoded JSON values
PyEq(x, y) ==
    IF x.t # y.t THEN FALSE
    ELSE IF x.t = "null" THEN TRUE
    ELSE x.v = y.v

\* pytest's report of a test body: pytest.skip raises Skipped, every other
\* exception that leaves the body fails the test
Verdict(r) ==
    IF r.kind = "return" THEN "passed"
    ELSE IF r.exc = "Skipped" THEN "skipped"
    ELSE "failed"

\* the service_data dictionaries of the tests
ServiceData(name, quantity, price) ==
    [name |-> name, quantity |-> quantity, price |-> price,
     tax |-> calculate_tax(price), gross |-> calculate_gross(price)]

\* how the remote service may misreport a record it was sent: another
\* identifier or name, a price off by 0.01, a tax or gross off by 0.02, a
\* price that is no number, a missing key
Defects ==
    {"none", "uuid", "name", "price", "tax", "gross", "price_as_string",
     "no_description", "no_gross", "no_uuid"}
Without(f, k) == [j \in DOMAIN f \ {k} |-> f[j]]
\* class docstring line 22: the record of a POST success
ServiceRecord(n, data, defect) ==
    LET full == [uuid |-> JUuid(IF defect = "uuid" THEN n + 1 ELSE n),
                 name |-> JStr(IF defect = "name" THEN "renamed" ELSE data.name),
                 description |-> PyNone,
                 price |-> IF defect = "price_as_string" THEN JStr("price")
                           ELSE JNum(IF defect = "price" THEN data.price + 1 ELSE data.price),
                 tax |-> JNum(IF defect = "tax" THEN data.tax + 2 ELSE data.tax),
                 gross |-> JNum(IF defect = "gross" THEN data.gross + 2 ELSE data.gross)]
    IN JObj(IF defect = "no_description" THEN Without(full, "description")
            ELSE IF defect = "no_gross" THEN Without(full, "gross")
            ELSE IF defect = "no_uuid" THEN Without(full, "uuid")
            ELSE full)

\* class docstring lines 17-19: the two envelopes of a POST success
Envelopes == {"single", "collection"}
Enveloped(envelope, record) ==
    IF envelope = "single" THEN record
    ELSE JObj([data |-> JList(<<record>>), pagination |-> EmptyDict])
\* the answer to a POST of data: status and defect are the service's choice
PostStatuses == {200, 201, 422, 500}
PostAnswer(envelope, status, defect, n, data) ==
    IF status \in {200, 201}
      THEN Response(status, Enveloped(envelope, ServiceRecord(n, data, defect)))
      ELSE Response(status, JObj([errors |-> JObj([name |-> MsgList])]))
\* one remote service: the status and the defect of its answer to the
\* at-th POST of a test; its other POSTs are answered 201 and without defect
Services(requests) ==
    [status : PostStatuses, defect : Defects, at : 1..requests]
ServiceAnswer(service, envelope, k, data) ==
    IF k = service.at
      THEN PostAnswer(envelope, service.status, service.defect, k, data)
      ELSE PostAnswer(envelope, 201, "none", k, data)

\* d[k] on a decoded value: KeyError or TypeError when it cannot be read
KeyError == Raise("KeyError", Msg("", <<>>))
AssertionFailed(text) == Raise("AssertionError", Msg(text, <<>>))
Passed == Return(PyNone)

\* a sequence of checks: the first one that raises ends the test body
RECURSIVE FirstRaise(_)
FirstRaise(checks) ==
    IF checks = <<>> THEN Passed
    ELSE IF Head(checks).kind = "raise" THEN Head(checks)
    ELSE FirstRaise(Tail(checks))
\* assert "k" in d
AssertHas(d, k) ==
    IF InRaises(d) THEN Raise("TypeError", Msg("", <<>>))
    ELSE IF PyIn(k, d) THEN Passed
    ELSE AssertionFailed(k)
\* assert d["k"] == v
AssertField(d, k, v) ==
    IF SubscriptRaises(k, d) THEN KeyError
    ELSE IF PyEq(Subscript(k, d), v) THEN Passed
    ELSE AssertionFailed(k)
\* response.json()
Json(response) ==
    IF response.body.t = "undecodable" THEN Raise("JSONDecodeError", Msg("", <<>>))
    ELSE Return(response.body)

\* lines 111-118: the dictionary test_create_service_success sends
create_success_data == ServiceData("Test Service", 10, 10000)
\* lines 109-137, given the answer to the POST of create_service
test_create_service_success(answer) ==
    LET service_data == create_success_data
        response == create_service(<<>>, answer).ret.value
        extracted == extract_service_from_response(response)
    IN IF extracted.kind = "raise" THEN extracted
       ELSE LET created_service == extracted.value IN
            FirstRaise(<<AssertHas(created_service, "name"),
                         AssertHas(created_service, "description"),
                         AssertHas(created_service, "price"),
                         AssertHas(created_service, "tax"),
                         AssertHas(created_service, "gross"),
                         AssertField(created_service, "name", JStr(service_data.name)),
                         AssertField(created_service, "price", JNum(service_data.price)),
                         AssertField(created_service, "tax", JNum(service_data.tax)),
                         AssertField(created_service, "gross", JNum(service_data.gross)),
                         IF SubscriptRaises("uuid", created_service) THEN KeyError ELSE Passed>>)

\* lines 188-216: the prices of the loop and one pass through its body
test_prices == <<10000, 25050, 100000, 9999, 100, 300000, 250000, 150000, 200000>>
different_prices_body(price, answer) ==
    LET response == create_service(<<>>, answer).ret.value IN
    IF response.status_code \notin {200, 201} THEN AssertionFailed("expected 200/201")
    ELSE IF Json(response).kind = "raise" THEN Json(response)
    ELSE LET response_data == Json(response).value IN
         FirstRaise(<<AssertField(response_data, "tax", JNum(calculate_tax(price))),
                      AssertField(response_data, "gross", JNum(calculate_gross(price)))>>)
RECURSIVE different_prices_from(_, _, _)
different_prices_from(k, service, envelope) ==
    IF k > Len(test_prices) THEN Passed
    ELSE LET price == test_prices[k]
             service_data == ServiceData("Service price", 1, price)
             r == different_prices_body(price, ServiceAnswer(service, envelope, k, service_data))
         IN IF r.kind = "raise" THEN r ELSE different_prices_from(k + 1, service, envelope)
test_create_service_with_different_prices(service, envelope) ==
    different_prices_from(1, service, envelope)

\* lines 291-298: the dictionary test_get_service_success sends
get_service_data == ServiceData("Service for GET", 5, 20000)
\* what the service may answer to the GET of line 307 for identifier n
GetStatuses == {200, 404}
GetResponses(n) ==
    {Response(status, ServiceRecord(n, get_service_data, defect)) :
        status \in GetStatuses, defect \in Defects}
\* lines 290-320, given the answer to the POST and, once the identifier was
\* read from it, the answer to the GET
test_get_service_success(answer, response) ==
    LET price == get_service_data.price
        service_data == get_service_data
        create_response == create_service(<<>>, answer).ret.value
    IN IF create_response.status_code \notin {200, 201} THEN AssertionFailed("create failed")
       ELSE IF Json(create_response).kind = "raise" THEN Json(create_response)
       ELSE IF SubscriptRaises("uuid", Json(create_response).value) THEN KeyError
       ELSE LET service_uuid == Subscript("uuid", Json(create_response).value) IN
            IF response.status_code # 200 THEN AssertionFailed("expected 200")
            ELSE IF Json(response).kind = "raise" THEN Json(response)
            ELSE LET response_data == Json(response).value IN
                 FirstRaise(<<AssertField(response_data, "uuid", service_uuid),
                              AssertField(response_data, "name", JStr(service_data.name)),
                              AssertField(response_data, "price", JNum(price)),
                              AssertField(response_data, "tax", JNum(calculate_tax(price)))>>)

(* ----------- each test run against both envelopes of one service -------- *)
\* A test is run twice against the same service, once with every POST
\* success in the single-object envelope and once in the collection
\* envelope; call.verdict holds pytest's report of either run.
TestCall(test, service, extra, single, collection) ==
    /\ call.op = "none"
    /\ call' = [op |-> "test", test |-> test, service |-> service, extra |-> extra,
                verdict |-> [single |-> Verdict(single), collection |-> Verdict(collection)]]
    /\ UNCHANGED lifecycle

RunCreateSuccess(service) ==
    TestCall("test_create_service_success", service, PyNone,
             test_create_service_success(ServiceAnswer(service, "single", 1, create_success_data)),
             test_create_service_success(ServiceAnswer(service, "collection", 1, create_success_data)))

RunDifferentPrices(service) ==
    TestCall("test_create_service_with_different_prices", service, PyNone,
             test_create_service_with_different_prices(service, "single"),
             test_create_service_with_different_prices(service, "collection"))

RunGetSuccess(service, response) ==
    TestCall("test_get_service_success", service, response,
             test_get_service_success(ServiceAnswer(service, "single", 1, get_service_data), response),
             test_get_service_success(ServiceAnswer(service, "collection", 1, get_service_data), response))

\* lines 141-147: the dictionary of the example of the assignment
example_data == [name |-> "service", quantity |-> 10, price |-> 10000, tax |-> 2200, gross |-> 12200]
\* lines 152-155: the four assertions on the normalised record
example_checks_without_gross(created_service) ==
    FirstRaise(<<AssertField(created_service, "name", JStr("service")),
                 AssertField(created_service, "price", JNum(10000)),
                 AssertField(created_service, "tax", JNum(2200))>>)
example_checks(created_service) ==
    FirstRaise(<<AssertField(created_service, "name", JStr("service")),
                 AssertField(created_service, "price", JNum(10000)),
                 AssertField(created_service, "tax", JNum(2200)),
                 AssertField(created_service, "gross", JNum(12200))>>)
\* lines 139-156, given the answer to the POST of create_service
test_create_service_from_example(answer) ==
    LET response == create_service(<<>>, answer).ret.value
        extracted == extract_service_from_response(response)
    IN IF extracted.kind = "raise" THEN extracted ELSE example_checks(extracted.value)

RunFromExample(service) ==
    TestCall("test_create_service_from_example", service, PyNone,
             test_create_service_from_example(ServiceAnswer(service, "single", 1, example_data)),
             test_create_service_from_example(ServiceAnswer(service, "collection", 1, example_data)))

\* lines 838-845: the dictionary test_delete_service_twice sends
delete_twice_data == ServiceData("Service for double delete", 1, 10000)
\* what the service may answer to a DELETE
DeleteStatuses == {200, 204, 404, 500}
\* line 865: the statuses the second DELETE may answer with
second_delete_allowed_with_200(status_code) == status_code \in {404, 204, 200}
second_delete_allowed(status_code) == status_code \in {404, 204}
\* lines 836-869, given the answer to the POST and to the two DELETEs
test_delete_service_twice(answer, status1, status2) ==
    LET c == create_service(<<>>, answer)
        create_response == c.ret.value
    IN IF create_response.status_code \notin {200, 201}
         THEN Raise("Skipped", Msg("could not create the service for the test", <<>>))
       ELSE IF Json(create_response).kind = "raise" THEN Json(create_response)
       ELSE IF SubscriptRaises("uuid", Json(create_response).value) THEN KeyError
       ELSE LET service_uuid == Subscript("uuid", Json(create_response).value) IN
            IF status1 \notin {200, 204} THEN AssertionFailed("first delete")
            ELSE IF ~second_delete_allowed(status2) THEN AssertionFailed("expected 404/204")
            ELSE IF service_uuid \notin Elements(c.uuids) THEN Raise("ValueError", Msg("", <<>>))
            ELSE Passed

RunDeleteTwice(service, status1, status2) ==
    TestCall("test_delete_service_twice", service, [status1 |-> status1, status2 |-> status2],
             test_delete_service_twice(ServiceAnswer(service, "single", 1, delete_twice_data), status1, status2),
             test_delete_service_twice(ServiceAnswer(service, "collection", 1, delete_twice_data), status1, status2))

\* test_service_api.py line 611: the name one character longer than
\* DB_LIMITS["name_max_length"] (255), kept as its description
too_long_name == "A * 256"
exceeding_name_data == ServiceData(too_long_name, 1, 10000)
\* len(x): TypeError on None and on numbers
LenRaises(x) == x.t \notin {"str", "list", "dict"}
\* lines 609-645, given the answer to the POST: the branches only print
test_bug_exceeding_name_length(answer) ==
    LET response == create_service(<<>>, answer).ret.value IN
    IF response.status_code = 422 THEN Passed
    ELSE IF response.status_code \in {200, 201}
      THEN IF Json(response).kind = "raise" THEN Json(response)
           ELSE LET response_data == Json(response).value IN
                IF response_data.t # "dict" THEN Raise("AttributeError", Msg("", <<>>))
                ELSE IF PyIn("name", response_data) /\ LenRaises(Subscript("name", response_data))
                  THEN Raise("TypeError", Msg("", <<>>))
                ELSE Passed
    ELSE Passed

RunExceedingNameLength(service) ==
    TestCall("test_bug_exceeding_name_length", service, PyNone,
             test_bug_exceeding_name_length(ServiceAnswer(service, "single", 1, exceeding_name_data)),
             test_bug_exceeding_name_length(ServiceAnswer(service, "collection", 1, exceeding_name_data)))

\* test_ui.py lines 215-219: (length of the name, should_pass)
name_test_cases == <<[length |-> 255, should_pass |-> TRUE],
                     [length |-> 256, should_pass |-> FALSE],
                     [length |-> 0, should_pass |-> FALSE]>>
\* test_ui.py lines 220-242 from the k-th case on: services is the number of
\* rows listed, accepted[k] whether the submission of case k adds a row
RECURSIVE name_validation_from(_, _, _)
name_validation_from(k, services, accepted) ==
    IF k > Len(name_test_cases) THEN Passed
    ELSE LET services_before == services
             services_after == IF accepted[k] THEN services + 1 ELSE services
         IN IF name_test_cases[k].should_pass
              THEN IF services_after > services_before
                     THEN name_validation_from(k + 1, services_after, accepted)
                     ELSE AssertionFailed("name must create a service")
              ELSE IF services_after = services_before
                     THEN name_validation_from(k + 1, services_after, accepted)
                     ELSE AssertionFailed("name must not create a service")
test_name_validation(accepted) == name_validation_from(1, 0, accepted)

\* the UI test has no response envelope: one run
RunNameValidation(accepted) ==
    /\ call.op = "none"
    /\ call' = [op |-> "ui_test", test |-> "test_name_validation", accepted |-> accepted,
                verdict |-> Verdict(test_name_validation(accepted))]
    /\ UNCHANGED lifecycle

NextTests ==
    \/ \E service \in Services(1) : RunCreateSuccess(service)
    \/ \E service \in Services(1) : RunFromExample(service)
    \/ \E service \in Services(Len(test_prices)) : RunDifferentPrices(service)
    \/ \E service \in Services(1), response \in GetResponses(1) : RunGetSuccess(service, response)
    \/ \E service \in Services(1), status1, status2 \in DeleteStatuses :
          RunDeleteTwice(service, status1, status2)
    \/ \E service \in Services(1) : RunExceedingNameLength(service)
    \/ \E accepted \in [DOMAIN name_test_cases -> BOOLEAN] : RunNameValidation(accepted)
SpecTests == Init /\ [][NextTests]_vars

IsTest(test) == call.op = "test" /\ call.test = test

(* ======================== properties of the API tests ================== *)
TestAnswer(envelope, data) == ServiceAnswer(call.service, envelope, 1, data)
HasField(x, k, v) == HasKey(x, k) /\ PyEq(x.v[k], v)

\* C11: every API test that reads the created record's fields from a
\* successful POST response (test_create_service_success,
\* test_create_service_with_different_prices, test_get_service_success)
\* reaches the same verdict whether the service answers with the
\* single-object envelope or with the collection envelope holding the same
\* record first.
C11_SameVerdictForBothEnvelopes ==
    (call.op = "test" /\ call.test \in {"test_create_service_success",
                                        "test_create_service_with_different_prices",
                                        "test_get_service_success"})
        => call.verdict.single = call.verdict.collection

\* C17: once the record is created, its identifier read and the first
\* DELETE answered 200 or 204, test_delete_service_twice fails exactly when
\* the second DELETE answers a status other than 404 and 204 (200 included).
C17_SecondDeleteMustBe404Or204 ==
    (/\ IsTest("test_delete_service_twice")
     /\ call.service.status \in {200, 201}
     /\ HasKey(TestAnswer("single", delete_twice_data).body, "uuid")
     /\ call.extra.status1 \in {200, 204})
        => /\ call.extra.status2 \notin {404, 204} => call.verdict.single = "failed"
           /\ call.extra.status2 \in {404, 204} => call.verdict.single = "passed"
C17_Witness ==
    /\ IsTest("test_delete_service_twice")
    /\ call.service.status = 201
    /\ call.service.defect = "none"
    /\ call.extra.status1 = 200
    /\ call.extra.status2 = 200
    /\ call.verdict.single = "failed"

\* the prices of the round-trip set, in hundredths; 2147483647 of the set
\* does not fit 32-bit integers in hundredths and is left out
RoundTripPrices == {10000, 25050, 100000, 9999, 100, 1}
\* C18: test_get_service_success passes only when the record read back has
\* the identifier the POST returned, the name and price sent, and tax and
\* gross within 0.01 of calculate_tax(p) and calculate_gross(p), and its
\* price p is one of the round-trip set {100, 250.50, 1000, 99.99, 1, 0.01,
\* 2147483647}.
C18_RoundTripChecked ==
    (IsTest("test_get_service_success") /\ call.verdict.single = "passed")
        => /\ HasField(call.extra.body, "uuid", TestAnswer("single", get_service_data).body.v["uuid"])
           /\ HasField(call.extra.body, "name", JStr(get_service_data.name))
           /\ HasField(call.extra.body, "price", JNum(get_service_data.price))
           /\ HasKey(call.extra.body, "tax")
           /\ Abs(call.extra.body.v["tax"].v - calculate_tax(get_service_data.price)) <= 1
           /\ HasKey(call.extra.body, "gross")
           /\ Abs(call.extra.body.v["gross"].v - calculate_gross(get_service_data.price)) <= 1
           /\ get_service_data.price \in RoundTripPrices

\* the four values of the example on the normalised record of a response
ExampleRecord(response) ==
    LET extracted == extract_service_from_response(response) IN
    /\ extracted.kind = "return"
    /\ HasField(extracted.value, "name", JStr("service"))
    /\ HasField(extracted.value, "price", JNum(10000))
    /\ HasField(extracted.value, "tax", JNum(2200))
    /\ HasField(extracted.value, "gross", JNum(12200))
\* C19: for either envelope, test_create_service_from_example passes exactly
\* when the status is 200 or 201 and the normalised record has name
\* 'service', price 100, tax 22 and gross 122.
C19_ExamplePassesExactlyWhenRecordMatches ==
    IsTest("test_create_service_from_example")
        => \A envelope \in Envelopes :
              call.verdict[envelope] = "passed"
                  <=> /\ Ok(TestAnswer(envelope, example_data))
                      /\ ExampleRecord(TestAnswer(envelope, example_data))
C19_Witness ==
    /\ IsTest("test_create_service_from_example")
    /\ call.service.status = 200
    /\ call.verdict.single = "passed"
    /\ call.verdict.collection = "passed"

\* C20: the API test and the UI test that submit a name of 256 characters
\* each fail when the service accepts the record: the API test when the POST
\* is answered 200 or 201, the UI test when the submission adds a row.
C20_TooLongNameFailsWhenAccepted ==
    /\ IsTest("test_bug_exceeding_name_length")
          => \A envelope \in Envelopes :
                call.service.status \in {200, 201} => call.verdict[envelope] = "failed"
    /\ call.op = "ui_test" => (call.accepted[2] => call.verdict = "failed")

(* ============ the class-scoped fixtures under the UI test classes ======= *)
\* test_ui.py lines 64-65, 290-291: the classes that use authenticated_page
UIClasses == <<"TestServicesForm", "TestCRUDOperations">>
\* config.py line 12
LOGIN_URL == "login"
\* where the browser may be after the submit and the wait of lines 64-65
UrlsAfterLogin == {LOGIN_URL, "services"}

\* conftest.py line 67: the login left the browser on the login page
login_failed_never(url) == FALSE
login_failed(url) == url = LOGIN_URL

\* conftest.py line 57, scope="class": pytest keeps the result of the
\* fixture, a value or a failure, until the class is torn down
authenticated_page_cached_never(result) == FALSE
authenticated_page_cached(result) == result # "unset"

InClass(name) == ui_class \in DOMAIN UIClasses /\ UIClasses[ui_class] = name

\* conftest.py lines 41-45: the first test of the next class requests the
\* fixtures; class_context opens a browser context
ClassContext(methods) ==
    /\ ui_pc = "between"
    /\ ui_class < Len(UIClasses)
    /\ ui_class' = ui_class + 1
    /\ remaining' = methods
    /\ class_context' = "open"
    /\ auth' = "unset"
    /\ logins' = 0
    /\ handed' = {}
    /\ ran' = 0
    /\ setup_errors' = 0
    /\ ui_pc' = "context"
    /\ UNCHANGED <<class_page, page_open, page_url, rows, dialog_handlers, removed, api, call>>

\* conftest.py lines 49-53: class_page opens a new page in that context
ClassPage ==
    /\ ui_pc = "context"
    /\ class_page' = class_page + 1
    /\ page_open' = TRUE
    /\ page_url' = "blank"
    /\ ui_pc' = "ready"
    /\ dialog_handlers' = 0
    /\ UNCHANGED <<ui_class, remaining, class_context, auth, logins, rows, handed, ran,
                   setup_errors, removed, api, call>>

\* conftest.py lines 57-69 up to the yield: the login steps and the check
\* of the URL, run when a test requests the fixture and no result is kept
AuthenticatedPage(url) ==
    /\ ui_pc = "ready"
    /\ remaining > 0
    /\ ~authenticated_page_cached(auth)
    /\ page_url' = url
    /\ logins' = logins + 1
    /\ auth' = IF login_failed(url) THEN "failed" ELSE "ok"
    /\ ui_pc' = "requested"
    /\ UNCHANGED <<ui_class, remaining, class_context, class_page, page_open, rows, handed,
                   ran, setup_errors, dialog_handlers, removed, api, call>>

\* a later test of the class requests the fixture: pytest hands out the
\* kept result
CachedPage ==
    /\ ui_pc = "ready"
    /\ remaining > 0
    /\ authenticated_page_cached(auth)
    /\ ui_pc' = "requested"
    /\ UNCHANGED <<ui_class, remaining, class_context, class_page, page_open, page_url, auth,
                   logins, rows, handed, ran, setup_errors, dialog_handlers, removed, api, call>>

\* conftest.py line 68: the failure of the fixture is the outcome of the
\* test that requested it; its body does not run
SetupError ==
    /\ ui_pc = "requested"
    /\ auth = "failed"
    /\ setup_errors' = setup_errors + 1
    /\ remaining' = remaining - 1
    /\ ui_pc' = "ready"
    /\ UNCHANGED <<ui_class, class_context, class_page, page_open, page_url, auth, logins,
                   rows, handed, ran, dialog_handlers, removed, api, call>>

\* test_ui.py lines 68-72: cleanup_services receives the page and registers
\* a listener that accepts dialogs
CleanupStart ==
    /\ ui_pc = "requested"
    /\ auth = "ok"
    /\ InClass("TestServicesForm")
    /\ ui_pc' = "cleanup"
    /\ dialog_handlers' = dialog_handlers + 1
    /\ removed' = 0
    /\ UNCHANGED <<ui_class, remaining, class_context, class_page, page_open, page_url, auth,
                   logins, rows, handed, ran, setup_errors, api, call>>

\* a click of the loop that never removes the row
CleanupClick_never_removes(deleted) ==
    /\ ui_pc = "cleanup"
    /\ rows > 0
    /\ UNCHANGED <<ui, api, call>>

\* test_ui.py lines 73-77: one pass of the loop; the click removes the row
\* unless the application fails to delete it
CleanupClick(deleted) ==
    /\ ui_pc = "cleanup"
    /\ rows > 0
    /\ rows' = IF deleted THEN rows - 1 ELSE rows
    /\ removed' = IF deleted THEN removed + 1 ELSE removed
    /\ UNCHANGED <<ui_pc, ui_class, remaining, class_context, class_page, page_open, page_url,
                   auth, logins, handed, ran, setup_errors, dialog_handlers, api, call>>

\* test_ui.py lines 73, 78: no delete control is left, the fixture yields
CleanupYield ==
    /\ ui_pc = "cleanup"
    /\ rows = 0
    /\ handed' = handed \cup {class_page}
    /\ ui_pc' = "test"
    /\ UNCHANGED <<ui_class, remaining, class_context, class_page, page_open, page_url, auth,
                   logins, rows, ran, setup_errors, dialog_handlers, removed, api, call>>

\* test_ui.py lines 294-301: setup_teardown empties the three form fields
\* and yields
SetupTeardown ==
    /\ ui_pc = "requested"
    /\ auth = "ok"
    /\ InClass("TestCRUDOperations")
    /\ handed' = handed \cup {class_page}
    /\ ui_pc' = "test"
    /\ UNCHANGED <<ui_class, remaining, class_context, class_page, page_open, page_url, auth,
                   logins, rows, ran, setup_errors, dialog_handlers, removed, api, call>>

\* a test body: its submissions and delete clicks leave the list with one
\* row more, one row less or as it was (test_ui.py lines 303-377); the
\* delete click of test_delete_service follows the page.on of line 365
TestBody(delta) ==
    /\ ui_pc = "test"
    /\ rows + delta \in 0..MaxRows
    /\ rows' = rows + delta
    /\ ran' = ran + 1
    /\ remaining' = remaining - 1
    /\ ui_pc' = "ready"
    /\ dialog_handlers' = IF InClass("TestCRUDOperations") /\ delta = -1
                          THEN dialog_handlers + 1 ELSE dialog_handlers
    /\ UNCHANGED <<ui_class, class_context, class_page, page_open, page_url, auth, logins,
                   handed, setup_errors, removed, api, call>>

\* conftest.py lines 54, 46: after the last test of the class pytest
\* resumes class_page and class_context behind their yield
ClassTeardown ==
    /\ ui_pc = "ready"
    /\ remaining = 0
    /\ page_open' = FALSE
    /\ class_context' = "closed"
    /\ ui_pc' = "between"
    /\ UNCHANGED <<ui_class, remaining, class_page, page_url, auth, logins, rows, handed,
                   ran, setup_errors, dialog_handlers, removed, api, call>>

NextUI ==
    \/ \E methods \in 1..MaxTests : ClassContext(methods)
    \/ ClassPage
    \/ \E url \in UrlsAfterLogin : AuthenticatedPage(url)
    \/ CachedPage
    \/ SetupError
    \/ CleanupStart
    \/ \E deleted \in BOOLEAN : CleanupClick(deleted)
    \/ CleanupYield
    \/ SetupTeardown
    \/ \E delta \in {-1, 0, 1} : TestBody(delta)
    \/ ClassTeardown
SpecUI == Init /\ [][NextUI]_vars

(* ====================== properties of the UI fixtures ================== *)
\* C14: authenticated_page hands the page to tests only when the URL after
\* the login submit and wait differs from the login URL; when it equals the
\* login URL the fixture fails and no test method of the class runs against
\* that page.
C14_PageOnlyAfterLeavingLogin ==
    /\ ui_pc \in {"cleanup", "test"} => (auth = "ok" /\ page_url # LOGIN_URL)
    /\ handed # {} => page_url # LOGIN_URL
    /\ (logins > 0 /\ page_url = LOGIN_URL) => (auth = "failed" /\ ran = 0 /\ handed = {})
C14_Witness ==
    /\ logins = 1
    /\ page_url = LOGIN_URL
    /\ auth = "failed"
    /\ setup_errors = 2
    /\ ran = 0
    /\ ui_pc = "between"

\* C15: for each UI test class the login steps run exactly once, before the
\* first test method; every test method of the class receives the same page
\* object; the page and its context stay open until the last test method of
\* the class has run.
C15_OneLoginPerClass ==
    /\ logins <= 1
    /\ (ui_pc \in {"cleanup", "test"} \/ ran > 0) => logins = 1
    /\ handed \subseteq {class_page}
    /\ ui_pc \in {"ready", "requested", "cleanup", "test"}
          => (page_open /\ class_context = "open")
    /\ (class_context = "closed" /\ ui_pc = "between") => (~page_open /\ remaining = 0)
C15_Witness ==
    /\ ui_pc = "between"
    /\ ran = 2
    /\ logins = 1
    /\ handed = {class_page}
    /\ ~page_open
    /\ class_context = "closed"

\* C16: every test method of the form class and of the CRUD class starts
\* with no delete control (no service row) in the list.
C16_TestsStartWithEmptyList ==
    ui_pc = "test" => rows = 0

(* ------------------------- the known-defect tests ----------------------- *)
\* test_service_api.py lines 649, 674, 698: DB_LIMITS["max_int"] + 1 and
\* DB_LIMITS["min_int"] - 1, kept in hundreds; the tests never compare them
overflow_value == 21474837
underflow_value == -21474837
\* lines 651-657, 676-682, 700-706: the dictionaries the three tests send
overflow_quantity_data ==
    [name |-> "Overflow quantity test", quantity |-> overflow_value,
     price |-> 10000, tax |-> 2200, gross |-> 12200]
overflow_price_data ==
    [name |-> "Overflow price test", quantity |-> 1,
     price |-> overflow_value, tax |-> 2200, gross |-> 12200]
underflow_data ==
    [name |-> "Integer underflow test", quantity |-> underflow_value,
     price |-> underflow_value, tax |-> 1, gross |-> 1]

\* lines 647-669: both branches only print
test_bug_integer_overflow_quantity(answer) ==
    LET response == create_service(<<>>, answer).ret.value IN
    IF response.status_code = 422 THEN Passed
    ELSE IF response.status_code \in {200, 201} THEN Passed
    ELSE Passed

\* lines 671-694: the 200/201 branch decodes the body and reads its price
test_bug_integer_overflow_price(answer) ==
    LET response == create_service(<<>>, answer).ret.value IN
    IF response.status_code = 422 THEN Passed
    ELSE IF response.status_code \in {200, 201}
      THEN IF Json(response).kind = "raise" THEN Json(response)
           ELSE IF Json(response).value.t # "dict" THEN Raise("AttributeError", Msg("", <<>>))
           ELSE Passed
    ELSE Passed

\* lines 696-717: both branches only print
test_bug_integer_underflow(answer) ==
    LET response == create_service(<<>>, answer).ret.value IN
    IF response.status_code = 422 THEN Passed
    ELSE IF response.status_code \in {200, 201} THEN Passed
    ELSE Passed

\* lines 898-904: the dictionary the envelope test sends
inconsistent_structure_data ==
    [name |-> "Bug test inconsistent response", quantity |-> 10,
     price |-> 10000, tax |-> 2200, gross |-> 12200]
\* line 908: the statuses the envelope test requires
structure_status_ok_only_200(status_code) == status_code = 200
structure_status_ok(status_code) == status_code \in {200, 201}
\* lines 873-938: after the status assertion the branches only print, reading
\* the keys of the body, the identifier, the length of 'data' and the keys
\* of its first element
test_bug_critical_inconsistent_response_structure(answer) ==
    LET response == create_service(<<>>, answer).ret.value IN
    IF ~structure_status_ok(response.status_code)
      THEN AssertionFailed("request ended with an error")
    ELSE IF Json(response).kind = "raise" THEN Json(response)
    ELSE LET response_data == Json(response).value IN
         IF response_data.t # "dict" THEN Raise("AttributeError", Msg("", <<>>))
         ELSE IF PyIn("uuid", response_data) THEN Passed
         ELSE IF PyIn("data", response_data)
           THEN LET data == Subscript("data", response_data) IN
                IF LenRaises(data) THEN Raise("TypeError", Msg("", <<>>))
                ELSE IF data.t = "list" /\ data.v # <<>> /\ data.v[1].t # "dict"
                  THEN Raise("AttributeError", Msg("", <<>>))
                ELSE Passed
         ELSE Passed

RunOverflowQuantity(service) ==
    TestCall("test_bug_integer_overflow_quantity", service, PyNone,
             test_bug_integer_overflow_quantity(ServiceAnswer(service, "single", 1, overflow_quantity_data)),
             test_bug_integer_overflow_quantity(ServiceAnswer(service, "collection", 1, overflow_quantity_data)))
RunOverflowPrice(service) ==
    TestCall("test_bug_integer_overflow_price", service, PyNone,
             test_bug_integer_overflow_price(ServiceAnswer(service, "single", 1, overflow_price_data)),
             test_bug_integer_overflow_price(ServiceAnswer(service, "collection", 1, overflow_price_data)))
RunUnderflow(service) ==
    TestCall("test_bug_integer_underflow", service, PyNone,
             test_bug_integer_underflow(ServiceAnswer(service, "single", 1, underflow_data)),
             test_bug_integer_underflow(ServiceAnswer(service, "collection", 1, underflow_data)))
RunInconsistentStructure(service) ==
    TestCall("test_bug_critical_inconsistent_response_structure", service, PyNone,
             test_bug_critical_inconsistent_response_structure(
                 ServiceAnswer(service, "single", 1, inconsistent_structure_data)),
             test_bug_critical_inconsistent_response_structure(
                 ServiceAnswer(service, "collection", 1, inconsistent_structure_data)))

NextDefectTests ==
    \/ \E service \in Services(1) : RunOverflowQuantity(service)
    \/ \E service \in Services(1) : RunOverflowPrice(service)
    \/ \E service \in Services(1) : RunUnderflow(service)
    \/ \E service \in Services(1) : RunInconsistentStructure(service)
SpecDefectTests == Init /\ [][NextDefectTests]_vars

KnownDefectTests ==
    {"test_bug_integer_overflow_quantity", "test_bug_integer_overflow_price",
     "test_bug_integer_underflow", "test_bug_critical_inconsistent_response_structure"}

SpecTeardown ==
    /\ Spec
    /\ WF_vars(\E raises \in BOOLEAN, reached \in BOOLEAN : TeardownDelete(raises, reached))
    /\ WF_vars(TeardownDone)

\* C25: however the test body ends, on its last statement, on a failed
\* assertion or on a harness-fatal failure, the teardown follows, and it
\* eventually has issued a DELETE for every identifier tracked up to then.
C25_TeardownAfterEveryOutcome ==
    /\ [][(pc = "test" /\ pc' # "test") => pc' = "teardown"]_vars
    /\ (pc = "teardown") ~> (Finished /\ TeardownDeletes(deletes) = created_service_uuids)
C25_Witness ==
    /\ Finished
    /\ outcome = "failed"
    /\ Len(created_service_uuids) = 2
    /\ TeardownDeletes(deletes) = created_service_uuids

\* C26: every identifier in the tracked-resources list is the identifier of
\* a record created by a create_service call of the same test, also when a
\* POST is answered with the collection shape listing earlier records.
C26_TracksOnlyOwnRecords ==
    \A j \in DOMAIN created_service_uuids :
        \E c \in created : created_service_uuids[j] = JUuid(c.uuid)

\* a 200/201 response whose body has no identifier and an empty 'data' list
EmptyDataResponse ==
    /\ IsExtract /\ Ok(call.response)
    /\ ~HasKey(call.response.body, "uuid")
    /\ HasDataList(call.response.body)
    /\ call.response.body.v["data"].v = <<>>

\* C23 as stated: on a 200/201 response without identifier whose 'data' is
\* an empty list, extract_service_from_response fails as for any other
\* unrecognised shape: pytest.fail with a message naming the top-level keys
\* of the body.
C23_EmptyDataNamesKeys ==
    EmptyDataResponse
        => /\ call.result.kind = "raise"
           /\ call.result.exc = "Failed"
           /\ call.result.msg.args = <<DOMAIN call.response.body.v>>

\* C23 amended: on such a response extract_service_from_response fails on
\* the assertion of lines 62-63, an AssertionError whose message says that
\* the data list is empty and names no key of the body; it is not the
\* pytest.fail of the unrecognised shapes.
C23_EmptyDataFailsAssertion ==
    EmptyDataResponse
        => /\ call.result.kind = "raise"
           /\ call.result.exc = "AssertionError"
           /\ call.result.msg = Msg("data list is empty, created service not found", <<>>)
C23_Witness ==
    /\ EmptyDataResponse
    /\ HasKey(call.response.body, "pagination")
    /\ call.result.kind = "raise"
    /\ call.result.exc = "AssertionError"

(* ================== the list-delta checks of the UI tests ============== *)
\* a text is kept as the message it spells and whether it is spelled in
\* lower case only; str.lower() keeps the message and drops the capitals
Text(message, lowercase) == [message |-> message, lowercase |-> lowercase]
Lower(text) == Text(text.message, TRUE)
\* test_ui.py lines 168-179: the expected_errors of the parameter table,
\* all spelled in lower case
PriceMin == Text("price must not be less than 0.01", TRUE)
QuantityMin == Text("quantity must not be less than 1", TRUE)
NameRequired == Text("name must be filled in", TRUE)
ExpectedErrors == {<<PriceMin>>, <<QuantityMin>>, <<NameRequired>>, <<>>}
\* what the .invalid-feedback elements of the page may show
Feedbacks == {Text(m.message, l) : m \in {PriceMin, QuantityMin, NameRequired}, l \in BOOLEAN}
\* the row counts a page can show before and after an action
RowCounts == 0..MaxRows

\* test_ui.py lines 164, 320: the assertion of a create case
list_grew_or_same(services_before, services_after) == services_after >= services_before
list_grew(services_before, services_after) == services_after > services_before

\* test_ui.py lines 200-207: msg.lower() in error_text for every msg, where
\* error_text is the joined and lowered text of the feedback elements
RECURSIVE expected_errors_shown(_, _)
expected_errors_shown(expected_errors, shown) ==
    IF expected_errors = <<>> THEN Passed
    ELSE IF Lower(Head(expected_errors)) \in {Lower(f) : f \in shown}
      THEN expected_errors_shown(Tail(expected_errors), shown)
    ELSE AssertionFailed("message not found")

\* test_ui.py lines 144-165, given the row counts read before and after
test_positive_boundaries_combinations(services_before, services_after) ==
    IF list_grew(services_before, services_after) THEN Passed
    ELSE AssertionFailed("service must be created")

\* test_ui.py lines 181-210, given the row counts and the feedback shown
test_negative_boundaries_combinations(services_before, services_after, expected_errors, shown) ==
    IF services_after # services_before THEN AssertionFailed("service must not be created")
    ELSE IF expected_errors # <<>> THEN expected_errors_shown(expected_errors, shown)
    ELSE Passed

\* test_ui.py lines 348-377, given the count read first, the count after the
\* submit made on an empty list, and the count after the delete click
test_delete_service(services_first, services_created, services_after) ==
    LET services_before == IF services_first = 0 THEN services_created ELSE services_first IN
    IF services_before > 0
      THEN IF services_after < services_before THEN Passed
           ELSE AssertionFailed("service was not deleted")
      ELSE Raise("Skipped", Msg("no services to delete", <<>>))

ListCall(test, before, after, expected_errors, shown, result) ==
    /\ call.op = "none"
    /\ call' = [op |-> "ui_list_test", test |-> test, services_before |-> before,
                services_after |-> after, expected_errors |-> expected_errors,
                shown |-> shown, verdict |-> Verdict(result)]
    /\ UNCHANGED lifecycle

RunPositiveBoundaries(before, after) ==
    ListCall("test_positive_boundaries_combinations", before, after, <<>>, {},
             test_positive_boundaries_combinations(before, after))
RunNegativeBoundaries(before, after, expected_errors, shown) ==
    ListCall("test_negative_boundaries_combinations", before, after, expected_errors, shown,
             test_negative_boundaries_combinations(before, after, expected_errors, shown))
RunDeleteService(first, submitted, after) ==
    ListCall("test_delete_service", IF first = 0 THEN submitted ELSE first, after, <<>>, {},
             test_delete_service(first, submitted, after))

NextListTests ==
    \/ \E before, after \in RowCounts : RunPositiveBoundaries(before, after)
    \/ \E before, after \in RowCounts, expected_errors \in ExpectedErrors, shown \in SUBSET Feedbacks :
          RunNegativeBoundaries(before, after, expected_errors, shown)
    \/ \E first, after \in RowCounts, submitted \in {0, 1} :
          RunDeleteService(first, submitted, after)
SpecListTests == Init /\ [][NextListTests]_vars

IsListTest(test) == call.op = "ui_list_test" /\ call.test = test
\* the message occurs in the feedback shown, letter case aside
Occurs(text, shown) == \E f \in shown : f.message = text.message

\* C24: a create case passes only if the row count after the submit is
\* strictly greater than before; a rejected-create case passes only if the
\* count is unchanged and every expected error message occurs (letter case
\* aside) in the feedback shown; a delete case passes only if the count
\* after the click is strictly smaller than before it.
C24_ListDeltaChecks ==
    /\ (IsListTest("test_positive_boundaries_combinations") /\ call.verdict = "passed")
          => call.services_after > call.services_before
    /\ (IsListTest("test_negative_boundaries_combinations") /\ call.verdict = "passed")
          => /\ call.services_after = call.services_before
             /\ \A j \in DOMAIN call.expected_errors : Occurs(call.expected_errors[j], call.shown)
    /\ (IsListTest("test_delete_service") /\ call.verdict = "passed")
          => call.services_after < call.services_before
C24_Witness ==
    /\ IsListTest("test_negative_boundaries_combinations")
    /\ call.verdict = "passed"
    /\ call.services_before = 1
    /\ call.expected_errors = <<PriceMin>>
    /\ call.shown = {Text(PriceMin.message, FALSE)}

\* C27: on the page shared by the test methods of a UI class at most one
\* dialog-accepting handler is registered at any time, so every confirmation
\* dialog of a delete click is accepted exactly once.
C27_OneDialogHandler ==
    dialog_handlers <= 1

\* every click of the loop whose dialog is accepted removes its row, and
\* the loop goes on while it can
SpecCleanup ==
    /\ SpecUI
    /\ WF_vars(CleanupClick(TRUE))
    /\ WF_vars(CleanupYield)

\* C28: provided each accepted delete click removes one row, the cleanup
\* loop ends after finitely many clicks with no delete control left; it has
\* no other way out: while a row is left it stays in the loop, also when a
\* click leaves the row in place.
C28_CleanupLoopTerminates ==
    /\ (ui_pc = "cleanup") ~> (ui_pc = "test" /\ rows = 0)
    /\ [][(ui_pc = "cleanup" /\ rows > 0) => (ui_pc' = "cleanup" /\ rows' \in {rows, rows - 1})]_vars
C28_Witness ==
    /\ ui_pc = "test"
    /\ InClass("TestServicesForm")
    /\ removed = 1
    /\ rows = 0

====
